---- MODULE Spec2Model ----
(***************************************************************************)
(* Model of flavio/parameters.py: the loaders that populate the process-   *)
(* wide Parameter registry and one ParameterConstraints object             *)
(* (default_parameters), and the write_file / read_file round trip.        *)
(*                                                                         *)
(* Numbers are exact integers in fixed units.  Central values and errors   *)
(* are counted in units u; correlations in units of 1/CorrUnit, so a       *)
(* covariance entry is counted in u^2/CorrUnit.  The inputs are chosen so  *)
(* that every square root and quotient the code takes is exact.            *)
(***************************************************************************)
EXTENDS Integers, Sequences, FiniteSets, TLC

VARIABLES
    registry,     \* Parameter registry: name -> [description, tex]
    constraints,  \* the ParameterConstraints object: its constraint groups
    file,         \* the document written by write_file (NoFile before)
    readback,     \* the ParameterConstraints returned by read_file
    last,         \* the last call: which loader, its document, how it ended
    before,       \* the registry and the constraints as the last call found them
    nops          \* number of calls made

vars == <<registry, constraints, file, readback, last, before, nops>>

\* Number of loader / file calls explored.
MaxOps == 4

----------------------------------------------------------------------------
(* Generic helpers *)

Range(s) == {s[i] : i \in 1..Len(s)}

Abs(x) == IF x < 0 THEN -x ELSE x

RECURSIVE Gcd(_, _)
Gcd(a, b) == IF b = 0 THEN Abs(a) ELSE Gcd(b, a % b)

RECURSIVE SeqGcd(_)
SeqGcd(s) == IF s = <<>> THEN 0 ELSE Gcd(s[1], SeqGcd(Tail(s)))

\* math.sqrt on the perfect squares the inputs produce
Sqrt(n) == CHOOSE r \in 0..n : r * r = n

Empty == <<>>

NoError == "none"
KeyError == "KeyError"                  \* the NotFound of the registry and of remove_constraint
AssertionError == "AssertionError"      \* the loader's data-integrity failure
ParseError == "ParseError"              \* errors_from_string rejects the text
ConstraintExists == "ConstraintExists"  \* add_constraint rejects the group
ValidationError == "ValidationError"    \* a distribution rejects its arguments
ValueError == "ValueError"              \* malformed PDG table row

----------------------------------------------------------------------------
(* flavio.classes.Parameter: the process-wide registry *)

NoMeta == [description |-> "", tex |-> ""]

\* Parameter[name] succeeds
ParameterExists(reg, name) == name \in DOMAIN reg

\* Parameter(name): the existing instance, or a new one with empty metadata
Parameter(reg, name) ==
    IF name \in DOMAIN reg THEN reg ELSE reg @@ (name :> NoMeta)

SetDescription(reg, name, d) == [reg EXCEPT ![name].description = d]

SetTex(reg, name, t) == [reg EXCEPT ![name].tex = t]

----------------------------------------------------------------------------
(* flavio.statistics.probability: the distribution variants *)

NormalDistribution(central, error) ==
    [tag |-> "Normal", central_value |-> central, standard_deviation |-> error]

AsymmetricNormalDistribution(central, right, left) ==
    [tag |-> "AsymmetricNormal", central_value |-> central,
     right_deviation |-> right, left_deviation |-> left]

\* both deviations must be positive
AsymmetricNormalValid(right, left) == right > 0 /\ left > 0

MultivariateNormalDistribution(central, covariance) ==
    [tag |-> "MultivariateNormal", central_values |-> central, covariance |-> covariance]

----------------------------------------------------------------------------
(* flavio.classes.ParameterConstraints: the groups in insertion order,    *)
(* each a list of names with the one distribution that constrains them     *)

Group(names, dist) == [names |-> names, dist |-> dist]

ConstrainedNames(cons) == UNION {Range(cons[i].names) : i \in 1..Len(cons)}

GroupsOf(cons, name) == {i \in 1..Len(cons) : name \in Range(cons[i].names)}

RECURSIVE WithoutGroups(_, _, _)
WithoutGroups(cons, drop, i) ==
    IF i > Len(cons) THEN <<>>
    ELSE IF i \in drop THEN WithoutGroups(cons, drop, i + 1)
    ELSE <<cons[i]>> \o WithoutGroups(cons, drop, i + 1)

\* add_constraint: the whole group is installed, or nothing is when one of
\* its names is already in a group
add_constraint_Coexist(cons, names, dist) ==
    [err |-> NoError, cons |-> Append(cons, Group(names, dist))]

add_constraint(cons, names, dist) ==
    IF Range(names) \cap ConstrainedNames(cons) # {}
    THEN [err |-> ConstraintExists, cons |-> cons]
    ELSE [err |-> NoError, cons |-> Append(cons, Group(names, dist))]

\* remove_constraint: drops the whole group that holds the name
remove_constraint(cons, name) ==
    IF name \notin ConstrainedNames(cons)
    THEN [err |-> KeyError, cons |-> cons]
    ELSE [err |-> NoError, cons |-> WithoutGroups(cons, GroupsOf(cons, name), 1)]

----------------------------------------------------------------------------
(* flavio._parse_errors.errors_from_string                                 *)
(* The text of a value is a token list:  number (± number | + number -     *)
(* number)+                                                                *)

Num(v) == [kind |-> "num", val |-> v]
PM == [kind |-> "pm", val |-> 0]
Plus == [kind |-> "plus", val |-> 0]
Minus == [kind |-> "minus", val |-> 0]

IsNum(toks, i) == i <= Len(toks) /\ toks[i].kind = "num"

RECURSIVE ParseTerms(_, _, _, _)
ParseTerms(toks, i, sym, asym) ==
    IF i > Len(toks)
    THEN [ok |-> TRUE, symmetric_errors |-> sym, asymmetric_errors |-> asym]
    ELSE IF toks[i].kind = "pm" /\ IsNum(toks, i + 1)
    THEN ParseTerms(toks, i + 2, Append(sym, toks[i + 1].val), asym)
    ELSE IF /\ toks[i].kind = "plus" /\ IsNum(toks, i + 1)
            /\ i + 2 <= Len(toks) /\ toks[i + 2].kind = "minus" /\ IsNum(toks, i + 3)
    THEN ParseTerms(toks, i + 4, sym, Append(asym, <<toks[i + 1].val, toks[i + 3].val>>))
    ELSE [ok |-> FALSE, symmetric_errors |-> Empty, asymmetric_errors |-> Empty]

errors_from_string(toks) ==
    IF IsNum(toks, 1) /\ Len(toks) > 1
    THEN LET t == ParseTerms(toks, 2, Empty, Empty)
         IN  [ok |-> t.ok, central_value |-> toks[1].val,
              symmetric_errors |-> t.symmetric_errors,
              asymmetric_errors |-> t.asymmetric_errors]
    ELSE [ok |-> FALSE, central_value |-> 0,
          symmetric_errors |-> Empty, asymmetric_errors |-> Empty]

RECURSIVE SumSquares(_)
SumSquares(sym) ==
    IF sym = <<>> THEN 0 ELSE sym[1] * sym[1] + SumSquares(Tail(sym))

RECURSIVE SumProducts(_)
SumProducts(asym) ==
    IF asym = <<>> THEN 0 ELSE asym[1][1] * asym[1][2] + SumProducts(Tail(asym))

\* set_constraint: one asymmetric component alone gives the two-piece
\* distribution; otherwise the components combine into one symmetric error
set_constraint(cons, name, value) ==
    LET e == errors_from_string(value) IN
    IF ~e.ok THEN [err |-> ParseError, cons |-> cons]
    ELSE IF e.symmetric_errors = <<>> /\ Len(e.asymmetric_errors) = 1
    THEN IF AsymmetricNormalValid(e.asymmetric_errors[1][1], e.asymmetric_errors[1][2])
         THEN add_constraint(cons, <<name>>,
                  AsymmetricNormalDistribution(e.central_value,
                      e.asymmetric_errors[1][1], e.asymmetric_errors[1][2]))
         ELSE [err |-> ValidationError, cons |-> cons]
    ELSE add_constraint(cons, <<name>>,
             NormalDistribution(e.central_value,
                 Sqrt(SumSquares(e.symmetric_errors) + SumProducts(e.asymmetric_errors))))

----------------------------------------------------------------------------
(* Metadata loader *)

YamlNull == "~"

\* one pass of the loop body of _read_yaml_object_metadata
MetadataEntry_Overwrite(reg, name, info) ==
    LET r0 == Parameter(reg, name)
        r1 == SetDescription(r0, name,
                  IF "description" \in DOMAIN info /\ info["description"] # YamlNull
                  THEN info["description"] ELSE "")
    IN  IF "tex" \in DOMAIN info /\ info["tex"] # YamlNull
        THEN SetTex(r1, name, info["tex"]) ELSE r1

MetadataEntry(reg, name, info) ==
    LET r0 == Parameter(reg, name)
        r1 == IF "description" \in DOMAIN info /\ info["description"] # YamlNull
              THEN SetDescription(r0, name, info["description"]) ELSE r0
    IN  IF "tex" \in DOMAIN info /\ info["tex"] # YamlNull
        THEN SetTex(r1, name, info["tex"]) ELSE r1

\* the document is the list of (name, info) items of the YAML mapping
RECURSIVE _read_yaml_object_metadata(_, _)
_read_yaml_object_metadata(doc, reg) ==
    IF doc = <<>> THEN reg
    ELSE _read_yaml_object_metadata(Tail(doc), MetadataEntry(reg, doc[1][1], doc[1][2]))

----------------------------------------------------------------------------
(* Uncorrelated-value loader *)

\* one pass of the loop body of _read_yaml_object_values
ValuesEntry_NoLookup(reg, cons, name, value) == set_constraint(cons, name, value)

ValuesEntry(reg, cons, name, value) ==
    IF ~ParameterExists(reg, name)
    THEN [err |-> KeyError, cons |-> cons]
    ELSE set_constraint(cons, name, value)

\* the loop: stops at the first entry that raises; done counts the entries
\* that went through
RECURSIVE _read_yaml_object_values(_, _, _, _)
_read_yaml_object_values(doc, reg, cons, done) ==
    IF doc = <<>> THEN [err |-> NoError, cons |-> cons, done |-> done]
    ELSE LET r == ValuesEntry(reg, cons, doc[1][1], doc[1][2]) IN
         IF r.err # NoError THEN [err |-> r.err, cons |-> r.cons, done |-> done]
         ELSE _read_yaml_object_values(Tail(doc), reg, r.cons, done + 1)

----------------------------------------------------------------------------
(* Correlated-value loader *)

\* the factor 0.99 of the damping pass, as DampNum / DampDen
DampNum == 99
DampDen == 100

\* correlations are counted in units of 1/CorrUnit
CorrUnit == 10 * DampDen

Dim(m) == Len(m)

\* Matrices are lists of rows.  Appending the empty list to a row and to the
\* list of rows turns the function into the list it is equal to.

\* squared_error of one value, and its root (the combined error)
SquaredError_SymmetricOnly(e) == SumSquares(e.symmetric_errors)

SquaredError(e) == SumSquares(e.symmetric_errors) + SumProducts(e.asymmetric_errors)

CombinedError(e) == Sqrt(SquaredError(e))

\* the inner loop over the values of one group: the names, central values and
\* errors collected so far, up to the first value that raises
RECURSIVE GroupValues(_, _, _, _, _)
GroupValues(reg, values, names, central, errors) ==
    IF values = <<>>
    THEN [err |-> NoError, parameter_names |-> names,
          central_values |-> central, errors |-> errors]
    ELSE LET parameter_name == values[1][1]
             e == errors_from_string(values[1][2])
         IN  IF ~ParameterExists(reg, parameter_name)
             THEN [err |-> KeyError, parameter_names |-> names,
                   central_values |-> central, errors |-> errors]
             ELSE IF ~e.ok
             THEN [err |-> ParseError,
                   parameter_names |-> Append(names, parameter_name),
                   central_values |-> central, errors |-> errors]
             ELSE GroupValues(reg, Tail(values), Append(names, parameter_name),
                              Append(central, e.central_value),
                              Append(errors, CombinedError(e)))

\* the documents give the full matrix, which is handed on as it is
_fix_correlation_matrix(correlation, n) == correlation

\* np.outer(errors, errors) * correlation
Covariance(errors, correlation) ==
    [i \in 1..Len(errors) |-> [j \in 1..Len(errors) |->
        errors[i] * errors[j] * correlation[i][j]] \o <<>>] \o <<>>

\* (correlation - np.eye(n_dim))*0.99 + np.eye(n_dim)
Eye(n) == [i \in 1..n |-> [j \in 1..n |-> IF i = j THEN CorrUnit ELSE 0] \o <<>>] \o <<>>

DampedCorrelation_Twice(correlation) ==
    LET eye == Eye(Dim(correlation)) IN
    [i \in 1..Dim(correlation) |-> [j \in 1..Dim(correlation) |->
        ((correlation[i][j] - eye[i][j]) * DampNum * DampNum) \div (DampDen * DampDen)
            + eye[i][j]] \o <<>>] \o <<>>

DampedCorrelation(correlation) ==
    LET eye == Eye(Dim(correlation)) IN
    [i \in 1..Dim(correlation) |-> [j \in 1..Dim(correlation) |->
        ((correlation[i][j] - eye[i][j]) * DampNum) \div DampDen + eye[i][j]] \o <<>>] \o <<>>

\* np.all(np.linalg.eigvals(m) > 0) for a symmetric matrix: every leading
\* principal minor is positive.  Rows and columns are first divided by their
\* (positive) common divisors, which keeps the sign of every minor.
Transpose(m) == [i \in 1..Dim(m) |-> [j \in 1..Dim(m) |-> m[j][i]] \o <<>>] \o <<>>

RowGcds(m) == [i \in 1..Dim(m) |-> SeqGcd(m[i])] \o <<>>

ReduceRows(m) ==
    LET g == RowGcds(m) IN
    [i \in 1..Dim(m) |-> [j \in 1..Dim(m) |->
        IF g[i] = 0 THEN m[i][j] ELSE m[i][j] \div g[i]] \o <<>>] \o <<>>

Reduced(m) == Transpose(ReduceRows(Transpose(ReduceRows(m))))

\* m without its first row and its column c
Minor(m, c) ==
    [i \in 1..(Dim(m) - 1) |-> [j \in 1..(Dim(m) - 1) |->
        m[i + 1][IF j < c THEN j ELSE j + 1]] \o <<>>] \o <<>>

RECURSIVE Det(_)
RECURSIVE DetRow(_, _)
Det(m) == IF Dim(m) = 0 THEN 1 ELSE DetRow(m, 1)
DetRow(m, c) ==
    IF c > Dim(m) THEN 0
    ELSE (IF c % 2 = 1 THEN 1 ELSE -1) * m[1][c] * Det(Minor(m, c)) + DetRow(m, c + 1)

Leading(m, k) == [i \in 1..k |-> [j \in 1..k |-> m[i][j]] \o <<>>] \o <<>>

IsPositiveDefinite(m) ==
    LET r == Reduced(m) IN \A k \in 1..Dim(m) : Det(Leading(r, k)) > 0

IsSymmetric(m) == \A i, j \in 1..Dim(m) : m[i][j] = m[j][i]

\* what the loader did with one group
GroupTrace(err, v, correlation, covariance, damped) ==
    [err |-> err, parameter_names |-> v.parameter_names,
     central_values |-> v.central_values, errors |-> v.errors,
     correlation |-> correlation, covariance |-> covariance, damped |-> damped]

\* the call of add_constraint that ends the loop body
InstallGroup(cons, v, correlation, first, covariance, damped) ==
    LET r == IF IsSymmetric(covariance) /\ IsPositiveDefinite(covariance)
             THEN add_constraint(cons, v.parameter_names,
                      MultivariateNormalDistribution(v.central_values, covariance))
             ELSE [err |-> ValidationError, cons |-> cons]
    IN  [err |-> r.err, cons |-> r.cons,
         trace |-> GroupTrace(r.err, v, correlation, first, damped)]

\* one pass of the outer loop body of _read_yaml_object_values_correlated
CorrelatedGroup(reg, cons, parameter_group) ==
    LET v == GroupValues(reg, parameter_group.values, Empty, Empty, Empty)
        correlation == _fix_correlation_matrix(parameter_group.correlation,
                                               Len(v.parameter_names))
        covariance == Covariance(v.errors, correlation)
        damped == Covariance(v.errors, DampedCorrelation(correlation))
    IN  IF v.err # NoError
        THEN [err |-> v.err, cons |-> cons,
              trace |-> GroupTrace(v.err, v, parameter_group.correlation, Empty, FALSE)]
        ELSE IF IsPositiveDefinite(covariance)
        THEN InstallGroup(cons, v, correlation, covariance, covariance, FALSE)
        ELSE IF IsPositiveDefinite(damped)
        THEN InstallGroup(cons, v, correlation, covariance, damped, TRUE)
        ELSE [err |-> AssertionError, cons |-> cons,
              trace |-> GroupTrace(AssertionError, v, correlation, covariance, TRUE)]

\* the outer loop: stops at the first group that raises
RECURSIVE _read_yaml_object_values_correlated_Skip(_, _, _, _)
_read_yaml_object_values_correlated_Skip(list_, reg, cons, groups) ==
    IF list_ = <<>> THEN [err |-> NoError, cons |-> cons, groups |-> groups]
    ELSE LET r == CorrelatedGroup(reg, cons, list_[1])
             rest == _read_yaml_object_values_correlated_Skip(Tail(list_), reg, r.cons,
                                                              Append(groups, r.trace))
         IN  [err |-> IF r.err # NoError THEN r.err ELSE rest.err,
              cons |-> rest.cons, groups |-> rest.groups]

RECURSIVE _read_yaml_object_values_correlated(_, _, _, _)
_read_yaml_object_values_correlated(list_, reg, cons, groups) ==
    IF list_ = <<>> THEN [err |-> NoError, cons |-> cons, groups |-> groups]
    ELSE LET r == CorrelatedGroup(reg, cons, list_[1]) IN
         IF r.err # NoError
         THEN [err |-> r.err, cons |-> r.cons, groups |-> Append(groups, r.trace)]
         ELSE _read_yaml_object_values_correlated(Tail(list_), reg, r.cons,
                                                  Append(groups, r.trace))

----------------------------------------------------------------------------
(* write_file and read_file *)

\* get_yaml_dict: one item per group, the key is the name list, the record
\* holds the variant tag and the constructor arguments
YamlRecord(dist) ==
    IF dist.tag = "Normal"
    THEN [distribution |-> "normal",
          parameters |-> [central_value |-> dist.central_value,
                          standard_deviation |-> dist.standard_deviation]]
    ELSE IF dist.tag = "AsymmetricNormal"
    THEN [distribution |-> "asymmetric_normal",
          parameters |-> [central_value |-> dist.central_value,
                          right_deviation |-> dist.right_deviation,
                          left_deviation |-> dist.left_deviation]]
    ELSE [distribution |-> "multivariate_normal",
          parameters |-> [central_value |-> dist.central_values,
                          covariance |-> dist.covariance]]

get_yaml_dict(cons) ==
    [i \in 1..Len(cons) |-> <<cons[i].names, YamlRecord(cons[i].dist)>>]

\* the distribution a tagged record stands for
FromYamlRecord(rec) ==
    IF rec.distribution = "normal"
    THEN NormalDistribution(rec.parameters.central_value,
                            rec.parameters.standard_deviation)
    ELSE IF rec.distribution = "asymmetric_normal"
    THEN AsymmetricNormalDistribution(rec.parameters.central_value,
                                      rec.parameters.right_deviation,
                                      rec.parameters.left_deviation)
    ELSE MultivariateNormalDistribution(rec.parameters.central_value,
                                        rec.parameters.covariance)

RECURSIVE RegisterAll(_, _)
RegisterAll(reg, names) ==
    IF names = <<>> THEN reg ELSE RegisterAll(Parameter(reg, names[1]), Tail(names))

\* from_yaml_dict: a new ParameterConstraints, filled item by item
RECURSIVE from_yaml_dict(_, _, _)
from_yaml_dict(data, reg, cons) ==
    IF data = <<>> THEN [err |-> NoError, reg |-> reg, cons |-> cons]
    ELSE LET r == add_constraint(cons, data[1][1], FromYamlRecord(data[1][2])) IN
         IF r.err # NoError
         THEN [err |-> r.err, reg |-> RegisterAll(reg, data[1][1]), cons |-> r.cons]
         ELSE from_yaml_dict(Tail(data), RegisterAll(reg, data[1][1]), r.cons)

\* write_file: yaml.dump(constraints.get_yaml_dict(), f)
write_file(cons) == get_yaml_dict(cons)

\* _read_yaml_object_new / read_file
_read_yaml_object_new_Empty(obj, reg) == [err |-> NoError, reg |-> reg, cons |-> Empty]

_read_yaml_object_new(obj, reg) == from_yaml_dict(obj, reg, Empty)

----------------------------------------------------------------------------
(* read_pdg *)

\* the entries of pdg_include the model follows, in the order of the source
pdg_include == <<"B(s)", "B*0", "b">>

pdg_translate ==
    [p \in {"B(s)", "B(c)", "D(s)", "B(s)*", "D(s)*", "D*(2007)", "D*(2010)",
            "J/psi(1S)", "K(L)", "K(S)", "K*(892)+", "K*(892)0", "phi(1020)",
            "rho(770)0", "rho(770)+", "f(0)(980)", "eta'(958)", "omega(782)",
            "Lambda(b)", "Lambda(c)", "Higgs", "H"} |->
        CASE p = "B(s)" -> "Bs"        [] p = "B(c)" -> "Bc"
          [] p = "D(s)" -> "Ds"        [] p = "B(s)*" -> "Bs*"
          [] p = "D(s)*" -> "Ds*"      [] p = "D*(2007)" -> "D*0"
          [] p = "D*(2010)" -> "D*+"   [] p = "J/psi(1S)" -> "J/psi"
          [] p = "K(L)" -> "KL"        [] p = "K(S)" -> "KS"
          [] p = "K*(892)+" -> "K*+"   [] p = "K*(892)0" -> "K*0"
          [] p = "phi(1020)" -> "phi"  [] p = "rho(770)0" -> "rho0"
          [] p = "rho(770)+" -> "rho+" [] p = "f(0)(980)" -> "f0"
          [] p = "eta'(958)" -> "eta'" [] p = "omega(782)" -> "omega"
          [] p = "Lambda(b)" -> "Lambdab" [] p = "Lambda(c)" -> "Lambdac"
          [] p = "Higgs" -> "h"        [] p = "H" -> "h"]

\* pdg_translate.get(particle, particle)
Translate(particle) ==
    IF particle \in DOMAIN pdg_translate THEN pdg_translate[particle] ELSE particle

MassName(particle) == "m_" \o Translate(particle)

TauName(particle) == "tau_" \o Translate(particle)

\* what the regular expression makes of the particles followed
_pdg_particle_string_to_tex(string) ==
    CASE string = "B(s)" -> "B_{s}"
      [] string = "B*0" -> "B^{*0}"
      [] OTHER -> string

\* a line of the table: comment lines start with '*'; a blank width field
\* reads as the width (0, 0, 0)
PdgLine(ids, name, charges, mass, width) ==
    [comment |-> FALSE, ids |-> ids, name |-> name, charges |-> charges,
     mass |-> mass, blank |-> FALSE, width |-> width]

PdgLineNoWidth(ids, name, charges, mass) ==
    [comment |-> FALSE, ids |-> ids, name |-> name, charges |-> charges,
     mass |-> mass, blank |-> TRUE, width |-> <<0, 0, 0>>]

PdgComment ==
    [comment |-> TRUE, ids |-> Empty, name |-> "*", charges |-> Empty,
     mass |-> <<0, 0, 0>>, blank |-> TRUE, width |-> <<0, 0, 0>>]

DataLines(lines) == {i \in 1..Len(lines) : ~lines[i].comment}

LineWidth(line) == IF line.blank THEN <<0, 0, 0>> ELSE line.width

\* particles_by_name[name]: charge -> the last line that gives it
ChargesOf(lines, name) ==
    UNION {Range(lines[i].charges) : i \in {k \in DataLines(lines) : lines[k].name = name}}

LastLine(lines, name, charge) ==
    CHOOSE i \in DataLines(lines) :
        /\ lines[i].name = name /\ charge \in Range(lines[i].charges)
        /\ \A k \in DataLines(lines) :
              (lines[k].name = name /\ charge \in Range(lines[k].charges)) => k <= i

ParticleKeys(lines) ==
    UNION {{<<lines[i].name, c>> : c \in Range(lines[i].charges)} : i \in DataLines(lines)}

KeyName(lines, nc) ==
    IF Cardinality(ChargesOf(lines, nc[1])) > 1 THEN nc[1] \o nc[2] ELSE nc[1]

_read_pdg_masswidth(lines) ==
    IF \E i \in DataLines(lines) : Len(lines[i].ids) # Len(lines[i].charges)
    THEN [err |-> ValueError, particles |-> Empty]
    ELSE [err |-> NoError,
          particles |->
            [key \in {KeyName(lines, nc) : nc \in ParticleKeys(lines)} |->
                LET nc == CHOOSE x \in ParticleKeys(lines) : KeyName(lines, x) = key
                    line == lines[LastLine(lines, nc[1], nc[2])]
                IN  [mass |-> line.mass, width |-> LineWidth(line)]]]

\* the number 1 in the units of widths and lifetimes
One == 10 * 10

\* try: Parameter[name]; constraints.remove_constraint(name)
\* except KeyError: Parameter(name)
RemoveOrCreate(reg, cons, parameter_name) ==
    IF ParameterExists(reg, parameter_name)
    THEN LET r == remove_constraint(cons, parameter_name) IN
         IF r.err = KeyError
         THEN [reg |-> Parameter(reg, parameter_name), cons |-> cons]
         ELSE [reg |-> reg, cons |-> r.cons]
    ELSE [reg |-> Parameter(reg, parameter_name), cons |-> cons]

\* the tex and description read_pdg gives a mass parameter
MassMeta(tex_name) ==
    IF tex_name = "b" \/ tex_name = "c"
    THEN [tex |-> "$m_{" \o tex_name \o "}(m_{" \o tex_name \o "})$",
          description |-> "$" \o tex_name
              \o "$ quark mass in the $\\overline{\\text{MS}}$ scheme at the scale $m_"
              \o tex_name \o "$"]
    ELSE IF tex_name = "s" \/ tex_name = "u" \/ tex_name = "d"
    THEN [tex |-> "$m_{" \o tex_name \o "}(2\\,\\text{GeV})$",
          description |-> "$" \o tex_name
              \o "$ quark mass in the $\\overline{\\text{MS}}$ scheme at 2 GeV"]
    ELSE IF tex_name = "t"
    THEN [tex |-> "$m_{" \o tex_name \o "}$",
          description |-> "$" \o tex_name \o "$ quark pole mass"]
    ELSE [tex |-> "$m_{" \o tex_name \o "}$",
          description |-> "$" \o tex_name \o "$ mass"]

TauMeta(tex_name) ==
    [tex |-> "$\\tau_{" \o tex_name \o "}$",
     description |-> "$" \o tex_name \o "$ lifetime"]

\* the constraint installed for a central value with a right and a left error
InstallErrors_Symmetric(cons, parameter_name, central, right, left) ==
    add_constraint(cons, <<parameter_name>>, NormalDistribution(central, right))

InstallErrors(cons, parameter_name, central, right, left) ==
    IF right = left
    THEN add_constraint(cons, <<parameter_name>>, NormalDistribution(central, right))
    ELSE IF AsymmetricNormalValid(right, left)
    THEN add_constraint(cons, <<parameter_name>>,
             AsymmetricNormalDistribution(central, right, left))
    ELSE [err |-> ValidationError, cons |-> cons]

\* the lifetime read_pdg derives from a width
TauCentral(G_central) == (One * One) \div G_central

TauLeft(G_central, G_left) == (G_left * One * One) \div (G_central * G_central)

TauRight(G_central, G_right) == (G_right * One * One) \div (G_central * G_central)

\* the lifetime half of the loop body
PdgLifetime_RemoveBeforeSkip(reg, cons, particles, particle) ==
    LET parameter_name == TauName(particle)
        G_central == particles[particle].width[1]
        G_right == particles[particle].width[2]
        G_left == Abs(particles[particle].width[3])
        s == RemoveOrCreate(reg, cons, parameter_name)
        regT == [s.reg EXCEPT ![parameter_name] =
                    TauMeta(_pdg_particle_string_to_tex(particle))]
        a == InstallErrors(s.cons, parameter_name, TauCentral(G_central),
                           TauRight(G_central, G_right), TauLeft(G_central, G_left))
    IN  IF G_central = 0
        THEN [err |-> NoError, reg |-> regT, cons |-> s.cons]
        ELSE [err |-> a.err, reg |-> regT, cons |-> a.cons]

PdgLifetime(reg, cons, particles, particle) ==
    IF particles[particle].width[1] = 0
    THEN [err |-> NoError, reg |-> reg, cons |-> cons]
    ELSE LET parameter_name == TauName(particle)
             G_central == particles[particle].width[1]
             G_right == particles[particle].width[2]
             G_left == Abs(particles[particle].width[3])
             s == RemoveOrCreate(reg, cons, parameter_name)
             regT == [s.reg EXCEPT ![parameter_name] =
                         TauMeta(_pdg_particle_string_to_tex(particle))]
             a == InstallErrors(s.cons, parameter_name, TauCentral(G_central),
                                TauRight(G_central, G_right), TauLeft(G_central, G_left))
         IN  [err |-> a.err, reg |-> regT, cons |-> a.cons]

\* one pass of the loop body of read_pdg
PdgParticle(reg, cons, particles, particle) ==
    LET parameter_name == MassName(particle)
        s == RemoveOrCreate(reg, cons, parameter_name)
        regM == [s.reg EXCEPT ![parameter_name] =
                    MassMeta(_pdg_particle_string_to_tex(particle))]
    IN  IF particle \notin DOMAIN particles
        THEN [err |-> KeyError, reg |-> regM, cons |-> s.cons]
        ELSE LET mass == particles[particle].mass
                 a == InstallErrors(s.cons, parameter_name, mass[1], mass[2], Abs(mass[3]))
             IN  IF a.err # NoError
                 THEN [err |-> a.err, reg |-> regM, cons |-> a.cons]
                 ELSE PdgLifetime(regM, a.cons, particles, particle)

RECURSIVE PdgLoop(_, _, _, _, _)
PdgLoop(include, reg, cons, particles, done) ==
    IF include = <<>> THEN [err |-> NoError, reg |-> reg, cons |-> cons, done |-> done]
    ELSE LET r == PdgParticle(reg, cons, particles, include[1]) IN
         IF r.err # NoError
         THEN [err |-> r.err, reg |-> r.reg, cons |-> r.cons, done |-> done]
         ELSE PdgLoop(Tail(include), r.reg, r.cons, particles, done + 1)

read_pdg(lines, reg, cons) ==
    LET t == _read_pdg_masswidth(lines) IN
    IF t.err # NoError
    THEN [err |-> t.err, reg |-> reg, cons |-> cons, done |-> 0]
    ELSE PdgLoop(pdg_include, reg, cons, t.particles, 0)

----------------------------------------------------------------------------
(* The documents the loaders are given *)

\* value texts: "5 ± 2 ± 2 ± 1", "3 +1 -3 ± 1", "7 ± 1", "2 +2 -1", "7 ±"
Text_5_pm2_pm2_pm1 == <<Num(5), PM, Num(2), PM, Num(2), PM, Num(1)>>
Text_3_p1_m3_pm1 == <<Num(3), Plus, Num(1), Minus, Num(3), PM, Num(1)>>
Text_7_pm1 == <<Num(7), PM, Num(1)>>
Text_2_p2_m1 == <<Num(2), Plus, Num(2), Minus, Num(1)>>
Text_bad == <<Num(7), PM>>

Pair(rho) == <<<<CorrUnit, rho>>, <<rho, CorrUnit>>>>

MetaDocs == {"meta_all", "meta_update"}

MetaDoc(id) ==
    IF id = "meta_all"
    THEN << <<"Vub", ("description" :> "CKM element") @@ ("tex" :> "$V_{ub}$")>>,
            <<"m_Bs", ("description" :> "Bs mass")>>,
            <<"tau_Bs", ("description" :> YamlNull) @@ ("tex" :> "$\\tau_{B_s}$")>>,
            <<"tau_B*0", Empty>> >>
    ELSE << <<"Vub", ("description" :> YamlNull) @@ ("tex" :> "$|V_{ub}|$")>>,
            <<"m_Bs", ("tex" :> YamlNull)>> >>

ValueDocs == {"values_1", "values_2"}

ValueDoc(id) ==
    IF id = "values_1"
    THEN << <<"Vub", Text_5_pm2_pm2_pm1>>, <<"tau_B*0", Text_2_p2_m1>> >>
    ELSE << <<"m_Bs", Text_7_pm1>>, <<"Vcb", Text_7_pm1>> >>

CorrelatedDocs ==
    {"corr_09", "corr_shared", "corr_notpd", "corr_unregistered", "corr_parse", "corr_3"}

CorrelatedDoc(id) ==
    CASE id = "corr_09" ->
           << [values |-> << <<"m_Bs", Text_3_p1_m3_pm1>>, <<"tau_B*0", Text_5_pm2_pm2_pm1>> >>,
               correlation |-> Pair(900)] >>
      [] id = "corr_shared" ->
           << [values |-> << <<"Vub", Text_5_pm2_pm2_pm1>>, <<"tau_Bs", Text_7_pm1>> >>,
               correlation |-> Pair(1000)],
              [values |-> << <<"tau_Bs", Text_7_pm1>>, <<"m_Bs", Text_3_p1_m3_pm1>> >>,
               correlation |-> Pair(0)] >>
      [] id = "corr_notpd" ->
           << [values |-> << <<"Vub", Text_7_pm1>>, <<"m_Bs", Text_3_p1_m3_pm1>> >>,
               correlation |-> Pair(1100)],
              [values |-> << <<"tau_Bs", Text_7_pm1>> >>,
               correlation |-> <<<<CorrUnit>>>>] >>
      [] id = "corr_unregistered" ->
           << [values |-> << <<"tau_Bs", Text_7_pm1>>, <<"Vcb", Text_7_pm1>> >>,
               correlation |-> Pair(0)] >>
      [] id = "corr_parse" ->
           << [values |-> << <<"m_Bs", Text_7_pm1>> >>,
               correlation |-> <<<<CorrUnit>>>>],
              [values |-> << <<"tau_Bs", Text_7_pm1>>, <<"Vub", Text_bad>> >>,
               correlation |-> Pair(0)] >>
      [] OTHER ->
           << [values |-> << <<"Vub", Text_7_pm1>>, <<"m_Bs", Text_7_pm1>>,
                             <<"tau_Bs", Text_3_p1_m3_pm1>> >>,
               correlation |-> << <<CorrUnit, CorrUnit, -CorrUnit>>,
                                  <<CorrUnit, CorrUnit, CorrUnit>>,
                                  <<-CorrUnit, CorrUnit, CorrUnit>> >>] >>

PdgFiles == {"mass_width_2017.mcd", "mass_width_2015.mcd", "mass_width_2013.mcd"}

\* the lines of a table: masses in units u, widths in units of 1/One
PdgFile(id) ==
    CASE id = "mass_width_2017.mcd" ->
           << PdgComment,
              PdgLine(<<"531">>, "B(s)", <<"0">>, <<5367, 2, -2>>, <<100, 10, -5>>),
              PdgLineNoWidth(<<"513", "523">>, "B*", <<"0", "+">>, <<5325, 4, -5>>),
              PdgLineNoWidth(<<"5">>, "b", <<"-1/3">>, <<4180, 40, -30>>) >>
      [] id = "mass_width_2015.mcd" ->
           << PdgLine(<<"531">>, "B(s)", <<"0">>, <<5366, 3, -3>>, <<200, 40, -40>>),
              PdgLine(<<"513", "523">>, "B*", <<"0", "+">>, <<5325, 4, -4>>, <<100, 20, -10>>),
              PdgLineNoWidth(<<"5">>, "b", <<"-1/3">>, <<4180, 30, -30>>) >>
      [] OTHER ->
           << PdgLine(<<"531">>, "B(s)", <<"0">>, <<5366, 3, -3>>, <<100, 10, -5>>),
              PdgLineNoWidth(<<"513", "523">>, "B*", <<"0", "+">>, <<5325, 4, -5>>) >>

----------------------------------------------------------------------------
(* The state machine *)

Call(op, doc, err, done, groups) ==
    [op |-> op, doc |-> doc, err |-> err, done |-> done, groups |-> groups]

Found(reg, cons) == [registry |-> reg, constraints |-> cons]

NoFile == [written |-> FALSE, dict |-> Empty, source |-> Empty]

NotRead == [read |-> FALSE, err |-> NoError, cons |-> Empty, source |-> Empty]

Init ==
    /\ registry = Empty
    /\ constraints = Empty
    /\ file = NoFile
    /\ readback = NotRead
    /\ last = Call("init", "", NoError, 0, Empty)
    /\ before = Found(Empty, Empty)
    /\ nops = 0

\* _read_yaml_object_metadata(obj, default_parameters)
LoadMetadata(id) ==
    /\ nops < MaxOps
    /\ registry' = _read_yaml_object_metadata(MetaDoc(id), registry)
    /\ last' = Call("metadata", id, NoError, Len(MetaDoc(id)), Empty)
    /\ before' = Found(registry, constraints)
    /\ nops' = nops + 1
    /\ UNCHANGED <<constraints, file, readback>>

\* _read_yaml_object_values(obj, default_parameters)
LoadValues(id) ==
    /\ nops < MaxOps
    /\ LET r == _read_yaml_object_values(ValueDoc(id), registry, constraints, 0) IN
        /\ constraints' = r.cons
        /\ last' = Call("values", id, r.err, r.done, Empty)
    /\ before' = Found(registry, constraints)
    /\ nops' = nops + 1
    /\ UNCHANGED <<registry, file, readback>>

\* _read_yaml_object_values_correlated(obj, default_parameters)
LoadCorrelated(id) ==
    /\ nops < MaxOps
    /\ LET r == _read_yaml_object_values_correlated(CorrelatedDoc(id), registry,
                                                    constraints, Empty) IN
        /\ constraints' = r.cons
        /\ last' = Call("correlated", id, r.err,
                        IF r.err = NoError THEN Len(r.groups) ELSE Len(r.groups) - 1,
                        r.groups)
    /\ before' = Found(registry, constraints)
    /\ nops' = nops + 1
    /\ UNCHANGED <<registry, file, readback>>

\* read_pdg(year, default_parameters)
ReadPdg(id) ==
    /\ nops < MaxOps
    /\ LET r == read_pdg(PdgFile(id), registry, constraints) IN
        /\ registry' = r.reg
        /\ constraints' = r.cons
        /\ last' = Call("read_pdg", id, r.err, r.done, Empty)
    /\ before' = Found(registry, constraints)
    /\ nops' = nops + 1
    /\ UNCHANGED <<file, readback>>

\* write_file(filename, default_parameters)
WriteFile ==
    /\ nops < MaxOps
    /\ file' = [written |-> TRUE, dict |-> write_file(constraints), source |-> constraints]
    /\ last' = Call("write_file", "", NoError, 0, Empty)
    /\ before' = Found(registry, constraints)
    /\ nops' = nops + 1
    /\ UNCHANGED <<registry, constraints, readback>>

\* read_file(filename)
ReadFile ==
    /\ nops < MaxOps
    /\ file.written
    /\ LET r == _read_yaml_object_new(file.dict, registry) IN
        /\ registry' = r.reg
        /\ readback' = [read |-> TRUE, err |-> r.err, cons |-> r.cons,
                        source |-> file.source]
        /\ last' = Call("read_file", "", r.err, 0, Empty)
    /\ before' = Found(registry, constraints)
    /\ nops' = nops + 1
    /\ UNCHANGED <<constraints, file>>

Next ==
    \/ \E id \in MetaDocs : LoadMetadata(id)
    \/ \E id \in ValueDocs : LoadValues(id)
    \/ \E id \in CorrelatedDocs : LoadCorrelated(id)
    \/ \E id \in PdgFiles : ReadPdg(id)
    \/ WriteFile
    \/ ReadFile

Spec == Init /\ [][Next]_vars

----------------------------------------------------------------------------
(* Properties *)

Registered == DOMAIN registry

\* the names a document of the correlated loader lists for its group k
DocNames(group) == [i \in 1..Len(group.values) |-> group.values[i][1]] \o <<>>

\* C1: after any sequence of loader calls every parameter name is in at most
\* one constraint group of the ParameterConstraints object.
C1_AtMostOneGroup ==
    \A name \in ConstrainedNames(constraints) :
        Cardinality(GroupsOf(constraints, name)) <= 1

\* a correlated load was turned down at a group that shares a name with a
\* group the same document installed just before
C1_Witness ==
    /\ last.op = "correlated" /\ last.err = ConstraintExists /\ last.done >= 1
    /\ Range(DocNames(CorrelatedDoc(last.doc)[last.done + 1]))
         \cap Range(DocNames(CorrelatedDoc(last.doc)[last.done])) # {}
    /\ Len(constraints) = Len(before.constraints) + last.done

\* C5: every constrained name is a registered Parameter, and the value
\* loaders stop with KeyError at the first name that is not registered:
\* nothing from that entry (that group) on is installed.
FirstUnregistered(names) ==
    IF \E i \in 1..Len(names) : names[i] \notin Registered
    THEN CHOOSE i \in 1..Len(names) :
            /\ names[i] \notin Registered
            /\ \A k \in 1..(i - 1) : names[k] \in Registered
    ELSE Len(names) + 1

ValueDocNames(doc) == [i \in 1..Len(doc) |-> doc[i][1]] \o <<>>

C5_ConstrainedAreRegistered ==
    /\ ConstrainedNames(constraints) \subseteq Registered
    /\ last.op = "values" =>
         LET names == ValueDocNames(ValueDoc(last.doc))
             u == FirstUnregistered(names)
         IN  /\ last.done < u
             /\ (u <= Len(names) /\ last.done = u - 1) => last.err = KeyError
             /\ (u <= Len(names)) => last.err # NoError
    /\ last.op = "correlated" =>
         \A k \in 1..Len(last.groups) :
            LET names == DocNames(CorrelatedDoc(last.doc)[k]) IN
            FirstUnregistered(names) <= Len(names) =>
                /\ last.groups[k].err # NoError
                /\ Len(last.groups[k].parameter_names) < FirstUnregistered(names)
                /\ last.done < k

\* a value is loaded for a name before anything registered it
C5_Witness ==
    /\ last.op = "values" /\ last.err = KeyError /\ last.done = 0
    /\ registry = Empty /\ constraints = Empty

\* C7: the metadata loader leaves the constraints alone, registers every
\* listed name, sets description and tex from the fields that are present and
\* not null, and keeps every other piece of metadata as it was.
MetaBefore(name) ==
    IF name \in DOMAIN before.registry THEN before.registry[name] ELSE NoMeta

Listed(doc) == {doc[i][1] : i \in 1..Len(doc)}

C7_MetadataOnly ==
    last.op = "metadata" =>
        LET doc == MetaDoc(last.doc) IN
        /\ constraints = before.constraints
        /\ Registered = DOMAIN before.registry \cup Listed(doc)
        /\ \A name \in Registered \ Listed(doc) : registry[name] = before.registry[name]
        /\ \A i \in 1..Len(doc) :
              LET name == doc[i][1]
                  info == doc[i][2]
              IN  /\ registry[name].description =
                        IF "description" \in DOMAIN info /\ info["description"] # YamlNull
                        THEN info["description"] ELSE MetaBefore(name).description
                  /\ registry[name].tex =
                        IF "tex" \in DOMAIN info /\ info["tex"] # YamlNull
                        THEN info["tex"] ELSE MetaBefore(name).tex

\* a document with a null description for a parameter that had one, loaded
\* into a process that already holds constraints
C7_Witness ==
    /\ last.op = "metadata" /\ last.doc = "meta_update"
    /\ "Vub" \in DOMAIN before.registry
    /\ before.registry["Vub"].description # ""
    /\ registry["Vub"].tex # before.registry["Vub"].tex
    /\ constraints # Empty

\* What a group of a correlated document asks for, worked out from the
\* document alone.
GroupParses(group) ==
    \A i \in 1..Len(group.values) : errors_from_string(group.values[i][2]).ok

GroupCentral(group) ==
    [i \in 1..Len(group.values) |->
        errors_from_string(group.values[i][2]).central_value] \o <<>>

\* error_i^2: the squares of the symmetric components plus right * left of
\* the asymmetric ones
GroupSquaredError(group, i) ==
    LET e == errors_from_string(group.values[i][2]) IN
    SumSquares(e.symmetric_errors) + SumProducts(e.asymmetric_errors)

GroupError(group, i) ==
    CHOOSE r \in 0..GroupSquaredError(group, i) : r * r = GroupSquaredError(group, i)

\* error_i * error_j * correlation[i][j]
GivenCovariance(group) ==
    [i \in 1..Len(group.values) |-> [j \in 1..Len(group.values) |->
        GroupError(group, i) * GroupError(group, j) * group.correlation[i][j]] \o <<>>] \o <<>>

\* the same with the correlation replaced once by 0.99*(correlation - I) + I
DampedOnceCovariance(group) ==
    [i \in 1..Len(group.values) |-> [j \in 1..Len(group.values) |->
        GroupError(group, i) * GroupError(group, j)
            * (IF i = j THEN CorrUnit
               ELSE (DampNum * group.correlation[i][j]) \div DampDen)] \o <<>>] \o <<>>

PassesFirst(group) == IsPositiveDefinite(GivenCovariance(group))

PassesDamped(group) == IsPositiveDefinite(DampedOnceCovariance(group))

\* the group is in the constraints with this covariance
InstalledWith(names, central, covariance) ==
    \E i \in 1..Len(constraints) :
        /\ constraints[i].names = names
        /\ constraints[i].dist = MultivariateNormalDistribution(central, covariance)

InstalledGroup(group) ==
    \E i \in 1..Len(constraints) :
        /\ constraints[i].names = DocNames(group)
        /\ constraints[i].dist.tag = "MultivariateNormal"

\* the names of the group were all registered and none was constrained when
\* the loader came to it
GroupAcceptable(k) ==
    LET doc == CorrelatedDoc(last.doc) IN
    /\ Range(DocNames(doc[k])) \subseteq Registered
    /\ Range(DocNames(doc[k])) \cap ConstrainedNames(before.constraints) = {}
    /\ \A h \in 1..(k - 1) : Range(DocNames(doc[k])) \cap Range(DocNames(doc[h])) = {}

\* C2 as stated: every group the correlated loader processes is installed
\* if and only if its covariance, or its covariance after one damping pass,
\* is positive-definite.
C2_InstalledIffPositiveDefinite ==
    last.op = "correlated" =>
        \A k \in 1..Len(last.groups) :
            LET group == CorrelatedDoc(last.doc)[k] IN
            (last.groups[k].err = NoError /\ InstalledGroup(group))
                <=> (GroupParses(group) /\ (PassesFirst(group) \/ PassesDamped(group)))

\* C2 amended: for every group whose covariance the loader builds (its names
\* are registered and its texts parse), the loader fails with AssertionError
\* exactly when neither the covariance nor the covariance damped once is
\* positive-definite; otherwise it hands the group to add_constraint, with the
\* undamped covariance when the first check passes and the covariance damped
\* exactly once when it does not, and the group is installed exactly when none
\* of its names is constrained already.
C2_DampedOnceThenFail ==
    last.op = "correlated" =>
        \A k \in 1..Len(last.groups) :
            LET group == CorrelatedDoc(last.doc)[k]
                t == last.groups[k]
            IN  (Range(DocNames(group)) \subseteq Registered /\ GroupParses(group)) =>
                  /\ t.err = AssertionError
                        <=> (~PassesFirst(group) /\ ~PassesDamped(group))
                  /\ t.err = NoError
                        <=> ((PassesFirst(group) \/ PassesDamped(group)) /\ GroupAcceptable(k))
                  /\ t.err = ConstraintExists
                        <=> ((PassesFirst(group) \/ PassesDamped(group)) /\ ~GroupAcceptable(k))
                  /\ t.err = NoError =>
                        InstalledWith(DocNames(group), GroupCentral(group),
                            IF PassesFirst(group) THEN GivenCovariance(group)
                            ELSE DampedOnceCovariance(group))
                  /\ t.err # NoError => ~(t.parameter_names \in
                        {constraints[i].names :
                            i \in (Len(before.constraints) + 1)..Len(constraints)})

\* a group with a singular covariance (correlation 1) was installed with the
\* covariance damped once
C2_Witness ==
    /\ last.op = "correlated"
    /\ \E k \in 1..Len(last.groups) :
          LET group == CorrelatedDoc(last.doc)[k] IN
          /\ last.groups[k].err = NoError
          /\ ~PassesFirst(group) /\ PassesDamped(group)
          /\ InstalledWith(DocNames(group), GroupCentral(group), DampedOnceCovariance(group))

\* C6: when a group of the correlated loader fails, the call fails with
\* that error, the constraints are those found plus the groups that came
\* before it in the document, in order, the failed group adds nothing, no
\* later group is processed and the registry is as it was.
C6_GroupAllOrNothing ==
    (last.op = "correlated" /\ last.err # NoError) =>
        LET doc == CorrelatedDoc(last.doc)
            n0 == Len(before.constraints)
        IN  /\ Len(last.groups) = last.done + 1
            /\ last.groups[last.done + 1].err = last.err
            /\ last.err \in {KeyError, ParseError, AssertionError, ConstraintExists}
            /\ Len(constraints) = n0 + last.done
            /\ SubSeq(constraints, 1, n0) = before.constraints
            /\ \A k \in 1..last.done :
                  /\ constraints[n0 + k].names = DocNames(doc[k])
                  /\ last.groups[k].err = NoError
            /\ registry = before.registry

\* a group failed the positive-definite check and a later group of the same
\* document was left unprocessed
C6_Witness ==
    /\ last.op = "correlated" /\ last.err = AssertionError
    /\ Len(CorrelatedDoc(last.doc)) > Len(last.groups)
    /\ constraints = before.constraints

\* C9: for every group whose values the loader has all read, the combined
\* error of parameter i squared is the sum of the squares of its symmetric
\* components plus the sum of right * left of its asymmetric ones, the
\* covariance first built has the entries error_i * error_j * correlation[i][j],
\* and names, central values and errors are in the order of the document;
\* an installed group keeps that order.
C9_ErrorsAndCovariance ==
    last.op = "correlated" =>
        \A k \in 1..Len(last.groups) :
            LET group == CorrelatedDoc(last.doc)[k]
                t == last.groups[k]
                n == Len(group.values)
            IN  t.err \in {NoError, AssertionError, ConstraintExists} =>
                  /\ t.parameter_names = DocNames(group)
                  /\ t.central_values = GroupCentral(group)
                  /\ Len(t.errors) = n
                  /\ \A i \in 1..n :
                        /\ t.errors[i] >= 0
                        /\ t.errors[i] * t.errors[i] = GroupSquaredError(group, i)
                  /\ \A i, j \in 1..n :
                        t.covariance[i][j]
                            = t.errors[i] * t.errors[j] * group.correlation[i][j]
                  /\ t.err = NoError =>
                        \E g \in (Len(before.constraints) + 1)..Len(constraints) :
                            /\ constraints[g].names = DocNames(group)
                            /\ constraints[g].dist.central_values = GroupCentral(group)
                            /\ \A i \in 1..n :
                                  constraints[g].dist.covariance[i][i]
                                      = GroupSquaredError(group, i) * CorrUnit

\* a group with symmetric and asymmetric components and correlation 0.9 was
\* installed
C9_Witness ==
    /\ last.op = "correlated" /\ last.doc = "corr_09" /\ last.err = NoError
    /\ InstalledWith(<<"m_Bs", "tau_B*0">>, <<3, 5>>,
                     <<<<4 * CorrUnit, 6 * 900>>, <<6 * 900, 9 * CorrUnit>>>>)

\* The table rows read_pdg works from, and what they ask for.
PdgRows == _read_pdg_masswidth(PdgFile(last.doc)).particles

Included == Range(pdg_include)

HasWidth(particle) == PdgRows[particle].width[1] # 0

ReadPdgCompleted == last.op = "read_pdg" /\ last.err = NoError

\* the groups that hold a name
GroupsWith(cons, name) == {cons[i] : i \in GroupsOf(cons, name)}

IndexOf(cons, name) == CHOOSE i \in 1..Len(cons) : name \in Range(cons[i].names)

\* the univariate distribution of a central value with a right and a left error
Univariate(central, right, left) ==
    IF right = left THEN NormalDistribution(central, right)
    ELSE AsymmetricNormalDistribution(central, right, left)

RightError(dist) ==
    IF dist.tag = "Normal" THEN dist.standard_deviation ELSE dist.right_deviation

LeftError(dist) ==
    IF dist.tag = "Normal" THEN dist.standard_deviation ELSE dist.left_deviation

\* C3: after read_pdg completes, m_<name> of every particle of pdg_include,
\* and tau_<name> when the table width is not 0, is registered and is in
\* exactly one group: the univariate one built from the table row.
C3_PdgOverwrites ==
    ReadPdgCompleted =>
        \A particle \in Included :
            LET m == MassName(particle)
                tau == TauName(particle)
                mass == PdgRows[particle].mass
                G == PdgRows[particle].width
            IN  /\ m \in Registered
                /\ GroupsWith(constraints, m)
                       = {Group(<<m>>, Univariate(mass[1], mass[2], Abs(mass[3])))}
                /\ HasWidth(particle) =>
                      /\ tau \in Registered
                      /\ Cardinality(GroupsOf(constraints, tau)) = 1
                      /\ \A g \in GroupsWith(constraints, tau) :
                            /\ g.names = <<tau>>
                            /\ g.dist.tag \in {"Normal", "AsymmetricNormal"}
                            /\ g.dist.central_value * G[1] = One * One
                            /\ {RightError(g.dist) * G[1] * G[1],
                                LeftError(g.dist) * G[1] * G[1]}
                                  = {G[2] * One * One, Abs(G[3]) * One * One}

\* read_pdg completed on a mass parameter that was a member of a joint group
C3_Witness ==
    /\ ReadPdgCompleted
    /\ \E g \in GroupsWith(before.constraints, "m_Bs") : Len(g.names) > 1
    /\ "m_B*0" \notin DOMAIN before.registry
    /\ "tau_Bs" \in DOMAIN before.registry
    /\ "tau_Bs" \notin ConstrainedNames(before.constraints)

\* C4: the lifetime derived from a width (G, G_right, |G_left|) has the
\* central value 1/G, the right error |G_left|/G^2 and the left error
\* G_right/G^2.
C4_LifetimeErrorsSwap ==
    ReadPdgCompleted =>
        \A particle \in {p \in Included : HasWidth(p)} :
            \A g \in GroupsWith(constraints, TauName(particle)) :
                LET G == PdgRows[particle].width IN
                /\ g.dist.central_value * G[1] = One * One
                /\ RightError(g.dist) * G[1] * G[1] = Abs(G[3]) * One * One
                /\ LeftError(g.dist) * G[1] * G[1] = G[2] * One * One

\* C8: what read_file returns for a written file has the groups of the
\* ParameterConstraints that was written: the same name lists, variants,
\* central values and errors or covariances; and every name it constrains is
\* registered.
C8_RoundTrip ==
    readback.read =>
        /\ readback.err = NoError
        /\ Len(readback.cons) = Len(readback.source)
        /\ Range(readback.cons) = Range(readback.source)
        /\ ConstrainedNames(readback.cons) \subseteq Registered

\* a file with a joint group of two parameters was written and read back
C8_Witness ==
    /\ readback.read
    /\ \E i \in 1..Len(readback.source) :
          /\ Len(readback.source[i].names) = 2
          /\ readback.source[i].dist.tag = "MultivariateNormal"

\* the names read_pdg overwrites
Overwritten ==
    {MassName(p) : p \in Included} \cup {TauName(p) : p \in {q \in Included : HasWidth(q)}}

TauUnregisteredOrSame(tau) ==
    /\ tau \in Registered <=> tau \in DOMAIN before.registry
    /\ tau \in Registered => registry[tau] = before.registry[tau]

MassBeforeLifetime ==
    \A particle \in {p \in Included : HasWidth(p)} :
        IndexOf(constraints, MassName(particle)) < IndexOf(constraints, TauName(particle))

\* C10 as stated: for a particle whose table width is 0, read_pdg leaves
\* tau_<name> as it was: registration, metadata and every constraint on it;
\* for the others the lifetime constraint comes after the mass constraint.
C10_LifetimeUntouched ==
    ReadPdgCompleted =>
        /\ \A particle \in {p \in Included : ~HasWidth(p)} :
              /\ TauUnregisteredOrSame(TauName(particle))
              /\ GroupsWith(constraints, TauName(particle))
                     = GroupsWith(before.constraints, TauName(particle))
        /\ MassBeforeLifetime

\* C10 amended: the constraint on tau_<name> stays as it was unless its
\* group also holds a name that read_pdg overwrites; such a group is removed
\* as a whole and tau_<name> is left without a constraint.
C10_LifetimeUntouchedUnlessGroupRemoved ==
    ReadPdgCompleted =>
        /\ \A particle \in {p \in Included : ~HasWidth(p)} :
              /\ TauUnregisteredOrSame(TauName(particle))
              /\ GroupsWith(constraints, TauName(particle))
                     = {g \in GroupsWith(before.constraints, TauName(particle)) :
                            Range(g.names) \cap Overwritten = {}}
        /\ MassBeforeLifetime

\* read_pdg completed for a table without a width for B*0, on a tau_B*0 that
\* had a univariate constraint, and the constraint is still there
C10_Witness ==
    /\ ReadPdgCompleted
    /\ ~HasWidth("B*0")
    /\ GroupsWith(before.constraints, "tau_B*0") # {}
    /\ GroupsWith(constraints, "tau_B*0") = GroupsWith(before.constraints, "tau_B*0")
    /\ "m_B*0" \in ConstrainedNames(constraints)

====
